---- MODULE Spec2Model ----
(***************************************************************************)
(* Order controller of the pet_food backend                                *)
(* (src/src/controllers/order.controller.ts).                              *)
(*                                                                         *)
(* createOrder is an async handler: it suspends at every `await`, so it is *)
(* modelled as a process whose steps are the storage calls it awaits, each *)
(* followed by the synchronous code up to the next storage call.  The      *)
(* database keeps, per transaction, the rows written under it (staged) and *)
(* makes them visible to readers when the transaction commits.  The other  *)
(* handlers await one read and then run synchronously: one action each.    *)
(***************************************************************************)
EXTENDS Integers, Sequences, FiniteSets, Bags, TLC

\* ------------------------------------------------------------------ bounds
MaxItems == 2        \* longest foods / places list of a request (Spec, SpecFault)
MaxQty == 2          \* largest quantity of a line item (Spec, SpecFault)
MaxOrders == 2       \* uuids the database hands out (SpecConc, SpecLife)
MaxPublished == 2    \* notifications kept on the channel (SpecLife)
MaxObservers == 1    \* subscribers of executedOrderStream$ (SpecLife)

NULL == 0            \* findOne / findByPk found nothing (ids and uuids are >= 1)

Procs == {"a", "b"}  \* createOrder invocations that may be in flight together

\* ------------------------------------------------------------------ state
VARIABLES
    User,         \* catalog tables (read-only for this controller)
    Food,
    Place,
    Order,        \* committed rows, what every reader sees
    OrderDetail,  \* bag of committed rows
    OrderPlace,   \* bag of committed rows
    nextUuid,     \* next uuid Order.create generates
    pc,           \* per createOrder invocation: the storage call it awaits
    req,          \* its request: req.user.id, req.body.foods, req.body.places
    tx,           \* state of its transaction
    staged,       \* rows written under its transaction, not yet visible
    local,        \* its local variables
    res,          \* what it answered: 201, or the error passed to next(...)
    observers,    \* number of subscribers of executedOrderStream$
    published,    \* messages pushed through executedOrderStream$.next
    reply         \* answer of the last executeOrder / updateOrderStatus / read

vars == <<User, Food, Place, Order, OrderDetail, OrderPlace, nextUuid,
          pc, req, tx, staged, local, res, observers, published, reply>>

catalog == <<User, Food, Place>>
tables == <<Order, OrderDetail, OrderPlace>>
channel == <<observers, published>>

\* OrderStatus (../models/orders)
CREATED == "CREATED"
RUNNING == "RUNNING"
COMPLETED == "COMPLETED"
FAILED == "FAILED"
OrderStatus == {CREATED, RUNNING, COMPLETED, FAILED}

\* ------------------------------------------------------------------ requests
\* Names a request may carry: one that is in the catalog, one that is not.
FoodNames == {"bread", "ghostfood"}
PlaceNames == {"table1", "ghostplace"}
UserIds == {1, 2}

FoodItems(Q) == [name : FoodNames, quantity : Q, withdrawal_order : {1}]
PlaceItems(Q) == [name : PlaceNames, quantity_to_deliver : Q]

SeqsUpTo(S, n) == UNION {[1..k -> S] : k \in 0..n}

\* Requests with at most n foods and n places, quantities in Q.
Requests(n, Q) ==
    [user : UserIds, foods : SeqsUpTo(FoodItems(Q), n), places : SeqsUpTo(PlaceItems(Q), n)]

NoRequest == [user |-> NULL, foods |-> <<>>, places |-> <<>>]

\* ------------------------------------------------------------------ storage
NoRows == [orders |-> {}, details |-> EmptyBag, places |-> EmptyBag]

\* User.findByPk(id): the id of the row, or NULL.
UserFindByPk(id) ==
    IF \E u \in User : u.id = id THEN id ELSE NULL

\* Food.findOne() without the where clause: the first row, whatever the name.
FoodFindOneAny(name) ==
    (CHOOSE f \in Food : \A g \in Food : f.id <= g.id).id

\* Food.findOne({where: {name}}): the id of the matching row, or NULL.
FoodFindOne(name) ==
    IF \E f \in Food : f.name = name
    THEN (CHOOSE f \in Food : f.name = name).id
    ELSE NULL

\* Place.findOne({where: {name}}): the id of the matching row, or NULL.
PlaceFindOne(name) ==
    IF \E f \in Place : f.name = name
    THEN (CHOOSE f \in Place : f.name = name).id
    ELSE NULL

\* The row Order.create builds.
OrderRow(uuid, userId) == [uuid |-> uuid, status |-> CREATED, userId |-> userId]

\* The row OrderDetail.create builds for a food item resolved to id f.
DetailRow(uuid, food, f) ==
    [orderUuid |-> uuid, quantity |-> food.quantity, foodId |-> f,
     withdrawal_order |-> food.withdrawal_order]

\* The row OrderPlace.create builds for a place item resolved to id p.
PlaceRow(uuid, place, p) ==
    [orderUuid |-> uuid, placeId |-> p, quantity_to_deliver |-> place.quantity_to_deliver]

\* Model.create(row): one INSERT, the table takes every row it is given.
Insert(table, row) == table (+) SetToBag({row})

\* ------------------------------------------------------------------ Init
NoLocal == [user |-> NULL, order |-> NULL, i |-> 1, j |-> 1, sumWithdrawal |-> 0, sumDeliver |-> 0, found |-> NULL]

NoReply == [op |-> "none", uuid |-> NULL, status |-> "none", body |-> {}]

Init ==
    /\ User = {[id |-> 1]}
    /\ Food = {[id |-> 1, name |-> "bread"], [id |-> 2, name |-> "pasta"]}
    /\ Place = {[id |-> 1, name |-> "table1"], [id |-> 2, name |-> "table2"]}
    /\ Order = {}
    /\ OrderDetail = EmptyBag
    /\ OrderPlace = EmptyBag
    /\ nextUuid = 1
    /\ pc = [p \in Procs |-> "idle"]
    /\ req = [p \in Procs |-> NoRequest]
    /\ tx = [p \in Procs |-> "none"]
    /\ staged = [p \in Procs |-> NoRows]
    /\ local = [p \in Procs |-> NoLocal]
    /\ res = [p \in Procs |-> "none"]
    /\ observers = 0
    /\ published = <<>>
    /\ reply = NoReply

\* ------------------------------------------------------------------ transactions
\* transaction.rollback() / transaction.commit() have been called and the
\* database has not carried them out yet.
TxOpen(p) == tx[p] \in {"open", "rollback_pending", "commit_pending"}

\* The database carries out a ROLLBACK: the rows written under the transaction are dropped.
TxRollbackSettles(p) ==
    /\ tx[p] = "rollback_pending"
    /\ tx' = [tx EXCEPT ![p] = "rollback"]
    /\ staged' = [staged EXCEPT ![p] = NoRows]
    /\ UNCHANGED <<catalog, tables, nextUuid, pc, req, local, res, channel, reply>>

\* The database carries out a COMMIT: the rows written under the transaction
\* become visible together.
TxCommitSettles(p) ==
    /\ tx[p] = "commit_pending"
    /\ tx' = [tx EXCEPT ![p] = "commit"]
    /\ Order' = Order \cup staged[p].orders
    /\ OrderDetail' = OrderDetail (+) staged[p].details
    /\ OrderPlace' = OrderPlace (+) staged[p].places
    /\ staged' = [staged EXCEPT ![p] = NoRows]
    /\ UNCHANGED <<catalog, nextUuid, pc, req, local, res, channel, reply>>

\* Order.create(row, {transaction}): the row is written under p's transaction.
WriteOrder(p, row) ==
    /\ staged' = [staged EXCEPT ![p].orders = @ \cup {row}]
    /\ UNCHANGED tables

\* OrderDetail.create(row) without the transaction: the row is visible at once.
WriteDetailNoTx(p, row) ==
    /\ OrderDetail' = Insert(OrderDetail, row)
    /\ UNCHANGED <<staged, Order, OrderPlace>>

\* OrderDetail.findOrCreate: a row equal to an existing one is not written again.
WriteDetailOnce(p, row) ==
    /\ staged' = [staged EXCEPT ![p].details =
                     IF row \in DOMAIN @ THEN @ ELSE Insert(@, row)]
    /\ UNCHANGED tables

\* OrderDetail.create(row, {transaction})
WriteDetail(p, row) ==
    /\ staged' = [staged EXCEPT ![p].details = Insert(@, row)]
    /\ UNCHANGED tables

\* OrderPlace.create(row, {transaction})
WritePlace(p, row) ==
    /\ staged' = [staged EXCEPT ![p].places = Insert(@, row)]
    /\ UNCHANGED tables

\* ------------------------------------------------------------------ createOrder
\* The check written with < in place of !==.
BalanceLoose(sumDeliver, sumWithdrawal) == ~(sumDeliver < sumWithdrawal)

\* The check with a guard against empty orders: !sumDeliver || sumDeliver !== sumWithdrawal.
BalanceNonEmpty(sumDeliver, sumWithdrawal) == sumDeliver # 0 /\ sumDeliver = sumWithdrawal

\* if (sumDeliver !== sumWithdrawal) { rollback; QUANTITIES_DO_NOT_MATCH }
BalanceOk(sumDeliver, sumWithdrawal) == sumDeliver = sumWithdrawal

\* The synchronous code after a row has been created, up to the next storage
\* call: the next food, else the next place, else the balance check followed
\* by the call of rollback or commit.  i and j are the next food and place.
Resume(r, i, j, sumWithdrawal, sumDeliver) ==
    IF i <= Len(r.foods) THEN [pc |-> "L42", tx |-> "open"]
    ELSE IF j <= Len(r.places) THEN [pc |-> "L57", tx |-> "open"]
    ELSE IF ~BalanceOk(sumDeliver, sumWithdrawal) THEN [pc |-> "L71", tx |-> "rollback_pending"]
    ELSE [pc |-> "L75", tx |-> "commit_pending"]

\* A uuid is left for every invocation that has not created its Order yet
\* (the slot of an invocation is free again once its transaction has ended).
UuidLeft ==
    nextUuid + Cardinality({q \in Procs : pc[q] \in {"L25", "L36"}}) <= MaxOrders

\* line 23: const transaction = await sequelize.transaction()
CanBegin(p) ==
    /\ pc[p] \in {"idle", "done"}
    /\ ~TxOpen(p)
    /\ UuidLeft

Begin(p, r) ==
    /\ CanBegin(p)
    /\ pc' = [pc EXCEPT ![p] = "L25"]
    /\ req' = [req EXCEPT ![p] = r]
    /\ tx' = [tx EXCEPT ![p] = "open"]
    /\ staged' = [staged EXCEPT ![p] = NoRows]
    /\ local' = [local EXCEPT ![p] = NoLocal]
    /\ res' = [res EXCEPT ![p] = "none"]
    /\ UNCHANGED <<catalog, tables, nextUuid, channel, reply>>

\* lines 25-34: User.findByPk; without a user, rollback is called (and not
\* awaited) and INTERNAL_SERVER_ERROR goes to next.
FindUser(p) ==
    /\ pc[p] = "L25"
    /\ LET user == UserFindByPk(req[p].user) IN
       IF user = NULL
       THEN /\ tx' = [tx EXCEPT ![p] = "rollback_pending"]
            /\ res' = [res EXCEPT ![p] = "INTERNAL_SERVER_ERROR"]
            /\ pc' = [pc EXCEPT ![p] = "done"]
            /\ UNCHANGED local
       ELSE /\ local' = [local EXCEPT ![p].user = user]
            /\ pc' = [pc EXCEPT ![p] = "L36"]
            /\ UNCHANGED <<tx, res>>
    /\ UNCHANGED <<catalog, tables, nextUuid, req, staged, channel, reply>>

\* lines 36-41: Order.create under the transaction, then into the loops.
CreateOrderRow(p) ==
    /\ pc[p] = "L36"
    /\ LET uuid == nextUuid
           then == Resume(req[p], 1, 1, 0, 0) IN
       /\ WriteOrder(p, OrderRow(uuid, local[p].user))
       /\ nextUuid' = nextUuid + 1
       /\ local' = [local EXCEPT ![p].order = uuid]
       /\ pc' = [pc EXCEPT ![p] = then.pc]
       /\ tx' = [tx EXCEPT ![p] = then.tx]
    /\ UNCHANGED <<catalog, req, res, channel, reply>>

\* lines 42-46: Food.findOne; an unknown name calls rollback and awaits it.
FindFood(p) ==
    /\ pc[p] = "L42"
    /\ LET f == FoodFindOne(req[p].foods[local[p].i].name) IN
       IF f = NULL
       THEN /\ tx' = [tx EXCEPT ![p] = "rollback_pending"]
            /\ pc' = [pc EXCEPT ![p] = "L44"]
            /\ UNCHANGED local
       ELSE /\ local' = [local EXCEPT ![p].found = f]
            /\ pc' = [pc EXCEPT ![p] = "L47"]
            /\ UNCHANGED tx
    /\ UNCHANGED <<catalog, tables, nextUuid, req, staged, res, channel, reply>>

\* createOrder with sumWithdrawal declared at module level: the quantity is
\* added for every invocation in flight.
CreateDetailShared(p) ==
    /\ pc[p] = "L47"
    /\ LET l == local[p]
           food == req[p].foods[l.i]
           sum == l.sumWithdrawal + food.quantity
           then == Resume(req[p], l.i + 1, l.j, sum, l.sumDeliver) IN
       /\ WriteDetail(p, DetailRow(l.order, food, l.found))
       /\ local' = [q \in Procs |->
                      IF q = p THEN [l EXCEPT !.sumWithdrawal = sum, !.i = l.i + 1]
                      ELSE [local[q] EXCEPT !.sumWithdrawal = @ + food.quantity]]
       /\ pc' = [pc EXCEPT ![p] = then.pc]
       /\ tx' = [tx EXCEPT ![p] = then.tx]
    /\ UNCHANGED <<catalog, nextUuid, req, res, channel, reply>>

\* lines 47-54: OrderDetail.create under the transaction; sumWithdrawal += quantity.
CreateDetail(p) ==
    /\ pc[p] = "L47"
    /\ LET l == local[p]
           food == req[p].foods[l.i]
           sum == l.sumWithdrawal + food.quantity
           then == Resume(req[p], l.i + 1, l.j, sum, l.sumDeliver) IN
       /\ WriteDetail(p, DetailRow(l.order, food, l.found))
       /\ local' = [local EXCEPT ![p].sumWithdrawal = sum, ![p].i = l.i + 1]
       /\ pc' = [pc EXCEPT ![p] = then.pc]
       /\ tx' = [tx EXCEPT ![p] = then.tx]
    /\ UNCHANGED <<catalog, nextUuid, req, res, channel, reply>>

\* lines 57-61: Place.findOne; an unknown name calls rollback and awaits it.
FindPlace(p) ==
    /\ pc[p] = "L57"
    /\ LET f == PlaceFindOne(req[p].places[local[p].j].name) IN
       IF f = NULL
       THEN /\ tx' = [tx EXCEPT ![p] = "rollback_pending"]
            /\ pc' = [pc EXCEPT ![p] = "L59"]
            /\ UNCHANGED local
       ELSE /\ local' = [local EXCEPT ![p].found = f]
            /\ pc' = [pc EXCEPT ![p] = "L62"]
            /\ UNCHANGED tx
    /\ UNCHANGED <<catalog, tables, nextUuid, req, staged, res, channel, reply>>

\* lines 62-73: OrderPlace.create under the transaction; sumDeliver += quantity_to_deliver.
CreatePlace(p) ==
    /\ pc[p] = "L62"
    /\ LET l == local[p]
           place == req[p].places[l.j]
           sum == l.sumDeliver + place.quantity_to_deliver
           then == Resume(req[p], l.i, l.j + 1, l.sumWithdrawal, sum) IN
       /\ WritePlace(p, PlaceRow(l.order, place, l.found))
       /\ local' = [local EXCEPT ![p].sumDeliver = sum, ![p].j = l.j + 1]
       /\ pc' = [pc EXCEPT ![p] = then.pc]
       /\ tx' = [tx EXCEPT ![p] = then.tx]
    /\ UNCHANGED <<catalog, nextUuid, req, res, channel, reply>>

\* The mismatch reported with the error of an unknown name.
ErrorAfterSame(at) ==
    IF at = "L78" THEN "error" ELSE "PARAM_NOT_VALID"

\* The error each awaited rollback is followed by (lines 45, 60, 72, 79).
ErrorAfter(at) ==
    CASE at = "L44" -> "PARAM_NOT_VALID"
      [] at = "L59" -> "PARAM_NOT_VALID"
      [] at = "L71" -> "QUANTITIES_DO_NOT_MATCH"
      [] at = "L78" -> "error"

\* `await transaction.rollback()` has returned: return next(<error>).
ReturnError(p) ==
    /\ pc[p] \in {"L44", "L59", "L71", "L78"}
    /\ tx[p] = "rollback"
    /\ res' = [res EXCEPT ![p] = ErrorAfter(pc[p])]
    /\ pc' = [pc EXCEPT ![p] = "done"]
    /\ UNCHANGED <<catalog, tables, nextUuid, req, tx, staged, local, channel, reply>>

\* lines 75-76: `await transaction.commit()` has returned: 201 "Order created".
ReturnCreated(p) ==
    /\ pc[p] = "L75"
    /\ tx[p] = "commit"
    /\ res' = [res EXCEPT ![p] = "201"]
    /\ pc' = [pc EXCEPT ![p] = "done"]
    /\ UNCHANGED <<catalog, tables, nextUuid, req, tx, staged, local, channel, reply>>

\* lines 77-78: a query (findByPk, findOne, create) rejects: the catch block
\* calls rollback and awaits it.  commit and rollback themselves do not reject.
StorageThrows(p) ==
    /\ pc[p] \in {"L25", "L36", "L42", "L47", "L57", "L62"}
    /\ pc' = [pc EXCEPT ![p] = "L78"]
    /\ tx' = [tx EXCEPT ![p] = "rollback_pending"]
    /\ UNCHANGED <<catalog, tables, nextUuid, req, staged, local, res, channel, reply>>

\* One step of invocation p after it has begun.
CreateOrderStep(p) ==
    \/ FindUser(p)
    \/ CreateOrderRow(p)
    \/ FindFood(p)
    \/ CreateDetail(p)
    \/ FindPlace(p)
    \/ CreatePlace(p)
    \/ ReturnError(p)
    \/ ReturnCreated(p)
    \/ TxRollbackSettles(p)
    \/ TxCommitSettles(p)

\* ------------------------------------------------------------------ reads
Uuids == 1..MaxOrders

\* Order.findByPk(uuid) / Order.findOne({where: {uuid}}): the committed rows
\* with that uuid (none: null).
OrderFind(uuid) == {o \in Order : o.uuid = uuid}

\* The committed OrderDetail / OrderPlace rows of order uuid.
DetailsOf(uuid) == [d \in {x \in DOMAIN OrderDetail : x.orderUuid = uuid} |-> OrderDetail[d]]
PlacesOf(uuid) == [d \in {x \in DOMAIN OrderPlace : x.orderUuid = uuid} |-> OrderPlace[d]]

\* include: [{model: Food}, {model: Place}]: the order with the Food of each of
\* its OrderDetail rows and the Place of each of its OrderPlace rows, each with
\* the row that joins it to the order.
Include(order) ==
    LET FoodOf(d) == [id |-> d.foodId,
                      name |-> (CHOOSE f \in Food : f.id = d.foodId).name,
                      OrderDetail |-> d]
        PlaceOf(d) == [id |-> d.placeId,
                       name |-> (CHOOSE f \in Place : f.id = d.placeId).name,
                       OrderPlace |-> d]
        details == DetailsOf(order.uuid)
        places == PlacesOf(order.uuid)
    IN  [uuid |-> order.uuid, status |-> order.status, userId |-> order.userId,
         Foods |-> [e \in {FoodOf(d) : d \in DOMAIN details} |-> details[e.OrderDetail]],
         Places |-> [e \in {PlaceOf(d) : d \in DOMAIN places} |-> places[e.OrderPlace]]]

Answer(op, uuid, status, body) == [op |-> op, uuid |-> uuid, status |-> status, body |-> body]

\* getAllOrders (lines 92-99)
GetAllOrders ==
    /\ reply' = Answer("getAllOrders", NULL, "200", {Include(o) : o \in Order})
    /\ UNCHANGED <<catalog, tables, nextUuid, pc, req, tx, staged, local, res, channel>>

\* getOrderByUuid (lines 108-116)
GetOrderByUuid(uuid) ==
    /\ LET order == OrderFind(uuid) IN
       IF order = {}
       THEN reply' = Answer("getOrderByUuid", uuid, "ORDER_NOT_FOUND", {})
       ELSE reply' = Answer("getOrderByUuid", uuid, "200", {Include(o) : o \in order})
    /\ UNCHANGED <<catalog, tables, nextUuid, pc, req, tx, staged, local, res, channel>>

\* The switch without the break of its first case: Created falls into Failed.
StatusLabelFallthrough(status) ==
    CASE status = CREATED -> "Failed"
      [] status = FAILED -> "Failed"
      [] status = RUNNING -> "Running"
      [] status = COMPLETED -> "Completed"
      [] OTHER -> ""

\* The switch of getOrderStatus (lines 129-143).
StatusLabel(status) ==
    CASE status = CREATED -> "Created"
      [] status = FAILED -> "Failed"
      [] status = RUNNING -> "Running"
      [] status = COMPLETED -> "Completed"
      [] OTHER -> ""

\* getOrderStatus (lines 125-148)
GetOrderStatus(uuid) ==
    /\ LET order == OrderFind(uuid) IN
       IF order = {}
       THEN reply' = Answer("getOrderStatus", uuid, "ORDER_NOT_FOUND", {})
       ELSE reply' = Answer("getOrderStatus", uuid, "200",
                            {[status |-> StatusLabel(o.status)] : o \in order})
    /\ UNCHANGED <<catalog, tables, nextUuid, pc, req, tx, staged, local, res, channel>>

\* ------------------------------------------------------------------ lifecycle
\* The stream's `closed` flag negated, read in place of `observed`: never false.
ObservedNotClosed == TRUE

\* executedOrderStream$.observed
Observed == observers > 0

\* The check written as order.status == OrderStatus.RUNNING.
AlreadyStartedRunning(order) == order.status = RUNNING

\* order.status != OrderStatus.CREATED
AlreadyStarted(order) == order.status # CREATED

\* messageFactory.getMessage(type, uuid, payload)
Message(type, uuid, payload) == [type |-> type, uuid |-> uuid, payload |-> payload]

\* executeOrder that also marks the order RUNNING when it has published.
ExecuteOrderAndRun(uuid) ==
    /\ LET found == OrderFind(uuid) IN
       IF found = {} \/ (\E o \in found : AlreadyStarted(o)) \/ ~Observed
       THEN /\ reply' = Answer("executeOrder", uuid,
                               IF found = {} THEN "ORDER_NOT_FOUND"
                               ELSE IF \E o \in found : AlreadyStarted(o)
                                    THEN "ORDER_ALREADY_STARTED" ELSE "WS_NOT_AVAILABLE", {})
            /\ UNCHANGED <<published, Order>>
       ELSE LET order == CHOOSE o \in found : TRUE IN
            /\ Len(published) < MaxPublished
            /\ published' = Append(published,
                                   Message("EXECUTE_ORDER", order.uuid, Include(order)))
            /\ Order' = (Order \ found) \cup {[order EXCEPT !.status = RUNNING]}
            /\ reply' = Answer("executeOrder", uuid, "200", {})
    /\ UNCHANGED <<catalog, OrderDetail, OrderPlace, nextUuid, pc, req, tx, staged, local, res,
                   observers>>

\* executeOrder that looks at the stream before it looks at the status.
ExecuteOrderChannelFirst(uuid) ==
    /\ LET found == OrderFind(uuid) IN
       IF found = {}
       THEN /\ reply' = Answer("executeOrder", uuid, "ORDER_NOT_FOUND", {})
            /\ UNCHANGED published
       ELSE LET order == CHOOSE o \in found : TRUE IN
            IF ~Observed
            THEN /\ reply' = Answer("executeOrder", uuid, "WS_NOT_AVAILABLE", {})
                 /\ UNCHANGED published
            ELSE IF AlreadyStarted(order)
            THEN /\ reply' = Answer("executeOrder", uuid, "ORDER_ALREADY_STARTED", {})
                 /\ UNCHANGED published
            ELSE /\ Len(published) < MaxPublished
                 /\ published' = Append(published,
                                        Message("EXECUTE_ORDER", order.uuid, Include(order)))
                 /\ reply' = Answer("executeOrder", uuid, "200", {})
    /\ UNCHANGED <<catalog, tables, nextUuid, pc, req, tx, staged, local, res, observers>>

\* executeOrder that answers an order once: with a message for the order on
\* the stream already, it answers ORDER_ALREADY_STARTED.
ExecuteOrderOnce(uuid) ==
    /\ LET found == OrderFind(uuid)
           sent == \E k \in DOMAIN published : published[k].uuid = uuid IN
       IF found = {}
       THEN /\ reply' = Answer("executeOrder", uuid, "ORDER_NOT_FOUND", {})
            /\ UNCHANGED published
       ELSE LET order == CHOOSE o \in found : TRUE IN
            IF AlreadyStarted(order) \/ sent
            THEN /\ reply' = Answer("executeOrder", uuid, "ORDER_ALREADY_STARTED", {})
                 /\ UNCHANGED published
            ELSE IF ~Observed
            THEN /\ reply' = Answer("executeOrder", uuid, "WS_NOT_AVAILABLE", {})
                 /\ UNCHANGED published
            ELSE /\ Len(published) < MaxPublished
                 /\ published' = Append(published,
                                        Message("EXECUTE_ORDER", order.uuid, Include(order)))
                 /\ reply' = Answer("executeOrder", uuid, "200", {})
    /\ UNCHANGED <<catalog, tables, nextUuid, pc, req, tx, staged, local, res, observers>>

\* executeOrder (lines 158-175)
ExecuteOrder(uuid) ==
    /\ LET found == OrderFind(uuid) IN
       IF found = {}
       THEN /\ reply' = Answer("executeOrder", uuid, "ORDER_NOT_FOUND", {})
            /\ UNCHANGED published
       ELSE LET order == CHOOSE o \in found : TRUE IN
            IF AlreadyStarted(order)
            THEN /\ reply' = Answer("executeOrder", uuid, "ORDER_ALREADY_STARTED", {})
                 /\ UNCHANGED published
            ELSE IF ~Observed
            THEN /\ reply' = Answer("executeOrder", uuid, "WS_NOT_AVAILABLE", {})
                 /\ UNCHANGED published
            ELSE /\ Len(published) < MaxPublished
                 /\ published' = Append(published,
                                        Message("EXECUTE_ORDER", order.uuid, Include(order)))
                 /\ reply' = Answer("executeOrder", uuid, "200", {})
    /\ UNCHANGED <<catalog, tables, nextUuid, pc, req, tx, staged, local, res, observers>>

\* How far a status is along CREATED -> RUNNING -> (COMPLETED | FAILED).
Rank(status) ==
    CASE status = CREATED -> 0
      [] status = RUNNING -> 1
      [] OTHER -> 2

\* updateOrderStatus with a forward-only guard: a status that is not further
\* along than the stored one is not written.
UpdateOrderStatusForward(uuid, status) ==
    /\ LET found == OrderFind(uuid) IN
       IF found = {}
       THEN /\ reply' = Answer("updateOrderStatus", uuid, "TypeError", {})
            /\ UNCHANGED Order
       ELSE /\ Order' = (Order \ found) \cup
                        {IF Rank(status) > Rank(o.status)
                         THEN [o EXCEPT !.status = status] ELSE o : o \in found}
            /\ reply' = Answer("updateOrderStatus", uuid, "void", {})
    /\ UNCHANGED <<catalog, OrderDetail, OrderPlace, nextUuid, pc, req, tx, staged, local,
                   res, channel>>

\* updateOrderStatus with Order.update({status}, {where: {}}): every order is written.
UpdateOrderStatusAll(uuid, status) ==
    /\ LET found == OrderFind(uuid) IN
       IF found = {}
       THEN /\ reply' = Answer("updateOrderStatus", uuid, "TypeError", {})
            /\ UNCHANGED Order
       ELSE /\ Order' = {[o EXCEPT !.status = status] : o \in Order}
            /\ reply' = Answer("updateOrderStatus", uuid, "void", {})
    /\ UNCHANGED <<catalog, OrderDetail, OrderPlace, nextUuid, pc, req, tx, staged, local,
                   res, channel>>

\* updateOrderStatus with order?.update: a missing order is passed over.
UpdateOrderStatusOptional(uuid, status) ==
    /\ LET found == OrderFind(uuid) IN
       /\ Order' = (Order \ found) \cup {[o EXCEPT !.status = status] : o \in found}
       /\ reply' = Answer("updateOrderStatus", uuid, "void", {})
    /\ UNCHANGED <<catalog, OrderDetail, OrderPlace, nextUuid, pc, req, tx, staged, local,
                   res, channel>>

\* updateOrderStatus (lines 182-186): order!.update on a missing order throws.
UpdateOrderStatus(uuid, status) ==
    /\ LET found == OrderFind(uuid) IN
       IF found = {}
       THEN /\ reply' = Answer("updateOrderStatus", uuid, "TypeError", {})
            /\ UNCHANGED Order
       ELSE /\ Order' = (Order \ found) \cup {[o EXCEPT !.status = status] : o \in found}
            /\ reply' = Answer("updateOrderStatus", uuid, "void", {})
    /\ UNCHANGED <<catalog, OrderDetail, OrderPlace, nextUuid, pc, req, tx, staged, local,
                   res, channel>>

\* A websocket client subscribes to executedOrderStream$.
Subscribe ==
    /\ observers < MaxObservers
    /\ observers' = observers + 1
    /\ UNCHANGED <<catalog, tables, nextUuid, pc, req, tx, staged, local, res, published, reply>>

\* A websocket client goes away.
Unsubscribe ==
    /\ observers > 0
    /\ observers' = observers - 1
    /\ UNCHANGED <<catalog, tables, nextUuid, pc, req, tx, staged, local, res, published, reply>>

\* ------------------------------------------------------------------ specifications
\* Spec: one createOrder call, any request within MaxItems and MaxQty, storage that answers.
Next ==
    \/ pc["a"] = "idle" /\ \E r \in Requests(MaxItems, 1..MaxQty) : Begin("a", r)
    \/ CreateOrderStep("a")

Spec == Init /\ [][Next]_vars

\* SpecFault: the same, with queries that may reject.
NextFault ==
    \/ Next
    \/ StorageThrows("a")

SpecFault == Init /\ [][NextFault]_vars

\* Requests with at most one food and one place of quantity 1.  Without a
\* user the handler returns before it reads req.body, so those carry no lists.
ConcRequests ==
    {x \in Requests(1, {1}) : (x.user = 1) \/ (x.foods = <<>> /\ x.places = <<>>)}

\* SpecConc: createOrder calls in flight together, each slot taken again when
\* its call has ended, and reads at any moment.
NextConc ==
    \/ \E p \in Procs :
        \/ CanBegin(p) /\ \E r \in ConcRequests : Begin(p, r)
        \/ CreateOrderStep(p)
    \/ GetAllOrders
    \/ \E uuid \in Uuids :
        \/ GetOrderByUuid(uuid)
        \/ GetOrderStatus(uuid)

SpecConc == Init /\ [][NextConc]_vars

\* Requests of the authenticated user with one food and at most one place.
LifeRequests ==
    {x \in Requests(1, {1}) : x.user = 1 /\ Len(x.foods) = 1}

\* SpecLife: orders created one at a time, executed and updated, with
\* subscribers coming and going.
NextLife ==
    \/ CanBegin("a") /\ \E r \in LifeRequests : Begin("a", r)
    \/ CreateOrderStep("a")
    \/ \E uuid \in Uuids :
        \/ ExecuteOrder(uuid)
        \/ \E status \in OrderStatus : UpdateOrderStatus(uuid, status)
    \/ Subscribe
    \/ Unsubscribe

SpecLife == Init /\ [][NextLife]_vars

\* Requests with up to MaxItems items of quantity 1 in each list, and requests
\* with at most one item of any quantity in each list.
AfterRequests ==
    Requests(MaxItems, {1}) \cup Requests(1, 1..MaxQty)

\* SpecAfter: one createOrder call and, at any moment, executeOrder,
\* updateOrderStatus, getOrderStatus and getOrderByUuid, with subscribers
\* coming and going.
NextAfter ==
    \/ pc["a"] = "idle" /\ \E r \in AfterRequests : Begin("a", r)
    \/ CreateOrderStep("a")
    \/ \E uuid \in Uuids :
        \/ ExecuteOrder(uuid)
        \/ \E status \in OrderStatus : UpdateOrderStatus(uuid, status)
        \/ GetOrderStatus(uuid)
        \/ GetOrderByUuid(uuid)
    \/ Subscribe
    \/ Unsubscribe

SpecAfter == Init /\ [][NextAfter]_vars

\* ------------------------------------------------------------------ what a request asks for
RECURSIVE FnSum(_, _)
\* The sum of w over S.
FnSum(w, S) ==
    IF S = {} THEN 0
    ELSE LET x == CHOOSE y \in S : TRUE IN w[x] + FnSum(w, S \ {x})

\* The bag of the elements of a sequence.
SeqToBag(rows) ==
    [e \in {rows[k] : k \in DOMAIN rows} |-> Cardinality({k \in DOMAIN rows : rows[k] = e})]

FoodSum(r) == FnSum([k \in DOMAIN r.foods |-> r.foods[k].quantity], DOMAIN r.foods)
PlaceSum(r) == FnSum([k \in DOMAIN r.places |-> r.places[k].quantity_to_deliver], DOMAIN r.places)

UserExists(r) == \E u \in User : u.id = r.user
FoodsResolve(r) == \A k \in DOMAIN r.foods : \E f \in Food : f.name = r.foods[k].name
PlacesResolve(r) == \A k \in DOMAIN r.places : \E f \in Place : f.name = r.places[k].name
NamesResolve(r) == FoodsResolve(r) /\ PlacesResolve(r)
Balanced(r) == FoodSum(r) = PlaceSum(r)

\* The rows a request asks for, were its order given uuid u.
AskedDetails(r, u) ==
    SeqToBag([k \in DOMAIN r.foods |->
                [orderUuid |-> u, quantity |-> r.foods[k].quantity,
                 foodId |-> (CHOOSE f \in Food : f.name = r.foods[k].name).id,
                 withdrawal_order |-> r.foods[k].withdrawal_order]])
AskedPlaces(r, u) ==
    SeqToBag([k \in DOMAIN r.places |->
                [orderUuid |-> u,
                 placeId |-> (CHOOSE f \in Place : f.name = r.places[k].name).id,
                 quantity_to_deliver |-> r.places[k].quantity_to_deliver]])

\* The quantities the committed rows of order u withdraw and deliver.
Withdrawn(u) ==
    LET b == DetailsOf(u) IN FnSum([d \in DOMAIN b |-> b[d] * d.quantity], DOMAIN b)
Delivered(u) ==
    LET b == PlacesOf(u) IN FnSum([d \in DOMAIN b |-> b[d] * d.quantity_to_deliver], DOMAIN b)

NothingVisibleOf(u) ==
    /\ OrderFind(u) = {}
    /\ DOMAIN DetailsOf(u) = {}
    /\ DOMAIN PlacesOf(u) = {}

NothingPersisted == Order = {} /\ OrderDetail = EmptyBag /\ OrderPlace = EmptyBag

\* ------------------------------------------------------------------ claims
\* C1: at every moment, with createOrder calls in flight together and reads in
\* between, the committed tables hold of each order either its Order row with
\* all the OrderDetail and OrderPlace rows its request asks for, or nothing;
\* no child row is visible without its Order, and no read has answered with
\* an order that lacks rows.
C1_AllOrNothingVisible ==
    /\ \A p \in Procs :
        local[p].order # NULL =>
            IF tx[p] = "commit"
            THEN /\ OrderFind(local[p].order) = {OrderRow(local[p].order, req[p].user)}
                 /\ DetailsOf(local[p].order) = AskedDetails(req[p], local[p].order)
                 /\ PlacesOf(local[p].order) = AskedPlaces(req[p], local[p].order)
            ELSE NothingVisibleOf(local[p].order)
    /\ \A d \in DOMAIN OrderDetail \cup DOMAIN OrderPlace : OrderFind(d.orderUuid) # {}
    /\ reply.op \in {"getAllOrders", "getOrderByUuid"} =>
        \A o \in reply.body :
            /\ OrderFind(o.uuid) # {}
            /\ BagCardinality(o.Foods) = BagCardinality(DetailsOf(o.uuid))
            /\ BagCardinality(o.Places) = BagCardinality(PlacesOf(o.uuid))

\* One call has committed an order with rows, a read has shown it, and the
\* other call has written its Order and OrderDetail under its transaction.
C1_Witness ==
    \E p, q \in Procs :
        /\ p # q
        /\ tx[p] = "commit" /\ req[p].foods # <<>>
        /\ pc[q] = "L62" /\ staged[q].details # EmptyBag
        /\ reply.op = "getAllOrders" /\ reply.body # {}

\* C2: every committed Order has OrderDetail quantities and OrderPlace
\* quantity_to_deliver of the same sum.
C2_PersistedBalanced ==
    \A o \in Order : Withdrawn(o.uuid) = Delivered(o.uuid)

\* An order of total 2 is committed, withdrawn in two rows and delivered in one.
C2_Witness ==
    \E o \in Order :
        /\ Withdrawn(o.uuid) = 2
        /\ BagCardinality(DetailsOf(o.uuid)) = 2
        /\ BagCardinality(PlacesOf(o.uuid)) = 1

\* C3: a call whose requester exists, whose names all resolve and whose two
\* sums agree answers 201 and has persisted one Order, CREATED and owned by the
\* requester, with one OrderDetail row per food item and one OrderPlace row per
\* place item, each with the item's quantity and the catalog id of its name.
C3_ValidRequestPersisted ==
    \A p \in Procs :
        (pc[p] = "done" /\ UserExists(req[p]) /\ NamesResolve(req[p]) /\ Balanced(req[p])) =>
            /\ res[p] = "201"
            /\ Order = {[uuid |-> local[p].order, status |-> CREATED, userId |-> req[p].user]}
            /\ OrderDetail = AskedDetails(req[p], local[p].order)
            /\ OrderPlace = AskedPlaces(req[p], local[p].order)
            /\ BagCardinality(OrderDetail) = Len(req[p].foods)
            /\ BagCardinality(OrderPlace) = Len(req[p].places)

\* A request naming the same food twice with the same quantity has succeeded.
C3_Witness ==
    \E p \in Procs :
        /\ pc[p] = "done" /\ res[p] = "201"
        /\ Len(req[p].foods) = 2 /\ req[p].foods[1] = req[p].foods[2]
        /\ Len(req[p].places) = 1

\* C4 as stated: a call whose sums differ persists nothing, and when every name
\* resolves it fails with QUANTITIES_DO_NOT_MATCH.
C4_Original ==
    \A p \in Procs :
        ~Balanced(req[p]) =>
            /\ NothingPersisted
            /\ (pc[p] = "done" /\ NamesResolve(req[p])) => res[p] = "QUANTITIES_DO_NOT_MATCH"

\* C4: a call whose sums differ persists nothing, at no step of it, and when
\* its requester exists and every name resolves it fails with
\* QUANTITIES_DO_NOT_MATCH, its transaction rolled back.
C4_MismatchPersistsNothing ==
    \A p \in Procs :
        ~Balanced(req[p]) =>
            /\ NothingPersisted
            /\ (pc[p] = "done" /\ UserExists(req[p]) /\ NamesResolve(req[p])) =>
                    /\ res[p] = "QUANTITIES_DO_NOT_MATCH"
                    /\ tx[p] = "rollback"
                    /\ staged[p] = NoRows

\* bread 2 for table1 1 has failed with the mismatch.
C4_Witness ==
    \E p \in Procs :
        /\ pc[p] = "done" /\ res[p] = "QUANTITIES_DO_NOT_MATCH"
        /\ Len(req[p].foods) = 1 /\ req[p].foods[1].quantity = 2
        /\ Len(req[p].places) = 1 /\ req[p].places[1].quantity_to_deliver = 1
        /\ NothingPersisted

\* C5 as stated: a call with a name that does not resolve fails with
\* PARAM_NOT_VALID and persists nothing.
C5_Original ==
    \A p \in Procs :
        ~NamesResolve(req[p]) =>
            /\ NothingPersisted
            /\ pc[p] = "done" => res[p] = "PARAM_NOT_VALID"

\* C5: a call with a name that does not resolve, wherever it stands in either
\* list, persists nothing at any step, and when its requester exists it fails
\* with PARAM_NOT_VALID, the rows written for the items before it dropped with
\* the Order.
C5_UnresolvedPersistsNothing ==
    \A p \in Procs :
        ~NamesResolve(req[p]) =>
            /\ NothingPersisted
            /\ (pc[p] = "done" /\ UserExists(req[p])) =>
                    /\ res[p] = "PARAM_NOT_VALID"
                    /\ tx[p] = "rollback"
                    /\ staged[p] = NoRows

\* The last place of two does not resolve, after two foods and a place that do.
C5_Witness ==
    \E p \in Procs :
        /\ pc[p] = "done" /\ res[p] = "PARAM_NOT_VALID"
        /\ Len(req[p].foods) = 2 /\ FoodsResolve(req[p])
        /\ Len(req[p].places) = 2
        /\ req[p].places[1].name = "table1" /\ req[p].places[2].name = "ghostplace"
        /\ local[p].i = 3 /\ local[p].j = 2

\* C6 as stated: whenever createOrder has passed an error to next, the rollback
\* of its transaction has been carried out.
C6_RollbackBeforeError ==
    \A p \in Procs :
        res[p] \notin {"none", "201"} => tx[p] = "rollback"

\* C7 as stated: when createOrder has returned, its transaction has been ended,
\* by a commit if it answered 201 and by a rollback otherwise.
C7_FinishedAtReturn ==
    \A p \in Procs :
        pc[p] = "done" =>
            /\ tx[p] \in {"commit", "rollback"}
            /\ tx[p] = "commit" <=> res[p] = "201"

\* C8: executeOrder on a committed order that is not CREATED answers
\* ORDER_ALREADY_STARTED and publishes nothing, with or without subscribers.
C8_NotCreatedNeverPublishes ==
    [][\A u \in Uuids :
         (ExecuteOrder(u) /\ \E o \in OrderFind(u) : o.status # CREATED) =>
             /\ reply' = [op |-> "executeOrder", uuid |-> u,
                          status |-> "ORDER_ALREADY_STARTED", body |-> {}]
             /\ published' = published
             /\ observers' = observers
             /\ Order' = Order]_vars

\* executeOrder has refused a COMPLETED order while a subscriber was attached.
C8_Witness ==
    /\ reply.op = "executeOrder" /\ reply.status = "ORDER_ALREADY_STARTED"
    /\ observers > 0
    /\ \E o \in OrderFind(reply.uuid) : o.status = COMPLETED
    /\ published = <<>>

\* C9: executeOrder on a CREATED order while the stream has no subscriber
\* answers WS_NOT_AVAILABLE, publishes nothing and leaves every order as it is.
C9_NoSubscriberNoPublish ==
    [][\A u \in Uuids :
         (ExecuteOrder(u) /\ observers = 0 /\ \E o \in OrderFind(u) : o.status = CREATED) =>
             /\ reply' = [op |-> "executeOrder", uuid |-> u,
                          status |-> "WS_NOT_AVAILABLE", body |-> {}]
             /\ published' = published
             /\ Order' = Order]_vars

\* executeOrder has failed for want of a subscriber, with two orders committed.
C9_Witness ==
    /\ reply.op = "executeOrder" /\ reply.status = "WS_NOT_AVAILABLE"
    /\ observers = 0
    /\ Cardinality(Order) = 2
    /\ \E o \in OrderFind(reply.uuid) : o.status = CREATED
    /\ \E o \in Order : o.uuid # reply.uuid /\ o.status = RUNNING

\* C10: executeOrder on a CREATED order with a subscriber attached answers 200
\* and appends one message to the stream, of type EXECUTE_ORDER, with the uuid
\* of the order and, as payload, the order with its foods and places; every
\* table is left as it is, so the order is still CREATED.
C10_ExecutePublishesOnce ==
    [][\A u \in Uuids :
         (ExecuteOrder(u) /\ observers > 0 /\ \E o \in OrderFind(u) : o.status = CREATED) =>
             /\ Len(published') = Len(published) + 1
             /\ SubSeq(published', 1, Len(published)) = published
             /\ LET m == published'[Len(published')] IN
                  /\ m.type = "EXECUTE_ORDER"
                  /\ m.uuid = u
                  /\ m.payload.uuid = u
                  /\ m.payload.status = CREATED
                  /\ {f.OrderDetail : f \in DOMAIN m.payload.Foods} = DOMAIN DetailsOf(u)
                  /\ {f.OrderPlace : f \in DOMAIN m.payload.Places} = DOMAIN PlacesOf(u)
             /\ reply'.status = "200"
             /\ Order' = Order /\ OrderDetail' = OrderDetail /\ OrderPlace' = OrderPlace
             /\ \E o \in Order' : o.uuid = u /\ o.status = CREATED]_vars

\* One message is on the stream, for an order with a food, which is still CREATED.
C10_Witness ==
    /\ reply.op = "executeOrder" /\ reply.status = "200"
    /\ Len(published) = 1
    /\ published[1].uuid = reply.uuid
    /\ published[1].payload.Foods # EmptyBag
    /\ \E o \in OrderFind(reply.uuid) : o.status = CREATED

\* ------------------------------------------------------------------ status order
Terminal(status) == status \in {COMPLETED, FAILED}

\* C11 as stated: no step takes the status of a committed order to an earlier
\* one of CREATED -> RUNNING -> (COMPLETED | FAILED).
C11_StatusForwardOnly ==
    [][\A o \in Order : \A n \in Order' :
         n.uuid = o.uuid => Rank(n.status) >= Rank(o.status)]_vars

\* C12 as stated: no step changes a COMPLETED or FAILED status, and no step
\* takes an order from CREATED to COMPLETED or FAILED.
C12_TerminalAndNoSkip ==
    [][\A o \in Order : \A n \in Order' :
         n.uuid = o.uuid =>
             /\ Terminal(o.status) => n.status = o.status
             /\ o.status = CREATED => ~Terminal(n.status)]_vars

\* C13: updateOrderStatus(uuid, s) on a committed order leaves it with status
\* s, whatever its status was and whichever of the four s is; only the status
\* of that order changes: its uuid and owner, every other order, every
\* OrderDetail and OrderPlace row and the stream stay as they are.
C13_UpdateOverwrites ==
    [][\A u \in Uuids : \A s \in OrderStatus :
         (UpdateOrderStatus(u, s) /\ OrderFind(u) # {}) =>
             /\ \A o \in OrderFind(u) :
                    Order' = (Order \ {o}) \cup
                             {[uuid |-> u, status |-> s, userId |-> o.userId]}
             /\ \A o \in Order : o.uuid # u => o \in Order'
             /\ Cardinality(Order') = Cardinality(Order)
             /\ OrderDetail' = OrderDetail /\ OrderPlace' = OrderPlace
             /\ published' = published
             /\ reply'.status = "void"]_vars

\* The last call was updateOrderStatus(uuid, CREATED) on an order that had been
\* executed, and it answered normally; another order is RUNNING.
C13_Witness ==
    /\ reply.op = "updateOrderStatus" /\ reply.status = "void"
    /\ \E o \in OrderFind(reply.uuid) : o.status = CREATED
    /\ \E m \in {published[k] : k \in DOMAIN published} :
           m.uuid = reply.uuid
    /\ \E o \in Order : o.uuid # reply.uuid /\ o.status = RUNNING

\* C15: a committed order stays: every step leaves the catalog as it is and
\* keeps each committed order with its uuid, its owner and exactly its
\* OrderDetail and OrderPlace rows; a step that changes the status of an order
\* is updateOrderStatus on that order.  This covers the createOrder steps of
\* later calls, whether they end in a commit or in a rollback.
C15_PersistedRowsStay ==
    [][/\ User' = User /\ Food' = Food /\ Place' = Place
       /\ \A o \in Order :
            /\ Cardinality({n \in Order' : n.uuid = o.uuid}) = 1
            /\ \A n \in Order' :
                 n.uuid = o.uuid =>
                     /\ n.userId = o.userId
                     /\ n.status # o.status => UpdateOrderStatus(o.uuid, n.status)
            /\ DetailsOf(o.uuid)' = DetailsOf(o.uuid)
            /\ PlacesOf(o.uuid)' = PlacesOf(o.uuid)]_vars

\* Order 1 is committed with its rows, was executed and is RUNNING, and a later
\* createOrder call, which had written its own Order row, has been rolled back.
C15_Witness ==
    /\ \E o \in OrderFind(1) : o.status = RUNNING
    /\ DOMAIN DetailsOf(1) # {} /\ DOMAIN PlacesOf(1) # {}
    /\ published # <<>>
    /\ pc["a"] = "done" /\ res["a"] = "PARAM_NOT_VALID" /\ local["a"].order = 2
    /\ tx["a"] = "rollback"

\* C18: executeOrder on an order that is CREATED, with a subscriber attached,
\* answers 200 and publishes a message for it also when messages for the same
\* order are on the stream already; it answers ORDER_ALREADY_STARTED only for an
\* order that is not CREATED, and an order leaves CREATED only by a step of
\* updateOrderStatus on it.
C18_ExecuteNotAtMostOnce ==
    [][/\ \A u \in Uuids :
            (/\ ExecuteOrder(u)
             /\ observers > 0
             /\ \E o \in OrderFind(u) : o.status = CREATED
             /\ \E k \in DOMAIN published : published[k].uuid = u) =>
                /\ reply'.status = "200"
                /\ published' = Append(published, published'[Len(published')])
                /\ published'[Len(published')].uuid = u
                /\ published'[Len(published')].type = "EXECUTE_ORDER"
       /\ \A u \in Uuids :
            (ExecuteOrder(u) /\ reply'.status = "ORDER_ALREADY_STARTED") =>
                \E o \in OrderFind(u) : o.status # CREATED
       /\ \A o \in Order :
            (o.status = CREATED /\ o \notin Order') =>
                /\ reply'.op = "updateOrderStatus"
                /\ reply'.uuid = o.uuid]_vars

\* Two messages for the same order are on the stream and the order is CREATED.
C18_Witness ==
    /\ reply.op = "executeOrder" /\ reply.status = "200"
    /\ Len(published) = 2
    /\ published[1].uuid = reply.uuid /\ published[2].uuid = reply.uuid
    /\ \E o \in OrderFind(reply.uuid) : o.status = CREATED

\* C20: updateOrderStatus for a uuid no committed order has ends in the
\* TypeError of the null dereference; no order is created and no order, row or
\* message changes.
C20_UpdateMissingThrows ==
    [][\A u \in Uuids : \A s \in OrderStatus :
         (UpdateOrderStatus(u, s) /\ OrderFind(u) = {}) =>
             /\ reply' = [op |-> "updateOrderStatus", uuid |-> u,
                          status |-> "TypeError", body |-> {}]
             /\ Order' = Order
             /\ OrderDetail' = OrderDetail /\ OrderPlace' = OrderPlace
             /\ published' = published]_vars

\* updateOrderStatus has failed for uuid 2, whose createOrder call was rolled
\* back, while order 1 is committed and RUNNING.
C20_Witness ==
    /\ reply.op = "updateOrderStatus" /\ reply.status = "TypeError" /\ reply.uuid = 2
    /\ OrderFind(2) = {}
    /\ local["a"].order = 2 /\ tx["a"] = "rollback"
    /\ \E o \in OrderFind(1) : o.status = RUNNING

\* A request with no food and no place / with exactly one of the two lists empty.
BothEmpty(r) == r.foods = <<>> /\ r.places = <<>>
OneEmpty(r) == (r.foods = <<>>) # (r.places = <<>>)

\* C19 as stated: a call with both lists empty answers 201 and has persisted an
\* Order, CREATED, without rows; a call with exactly one list empty fails with
\* QUANTITIES_DO_NOT_MATCH and persists nothing.
C19_Original ==
    \A p \in Procs :
        pc[p] = "done" =>
            /\ BothEmpty(req[p]) =>
                 /\ res[p] = "201"
                 /\ Order = {[uuid |-> local[p].order, status |-> CREATED, userId |-> req[p].user]}
                 /\ OrderDetail = EmptyBag /\ OrderPlace = EmptyBag
            /\ OneEmpty(req[p]) =>
                 /\ res[p] = "QUANTITIES_DO_NOT_MATCH"
                 /\ NothingPersisted

\* C19: a call of an existing requester with both lists empty answers 201 and
\* has persisted an Order, CREATED and owned by the requester, without any
\* OrderDetail or OrderPlace row; a call with exactly one list empty persists
\* nothing, and when its requester exists and the names of the other list all
\* resolve it fails with QUANTITIES_DO_NOT_MATCH.
C19_EmptyLists ==
    \A p \in Procs :
        /\ (pc[p] = "done" /\ BothEmpty(req[p]) /\ UserExists(req[p])) =>
             /\ res[p] = "201"
             /\ local[p].sumWithdrawal = 0 /\ local[p].sumDeliver = 0
             /\ Order = {[uuid |-> local[p].order, status |-> CREATED, userId |-> req[p].user]}
             /\ OrderDetail = EmptyBag /\ OrderPlace = EmptyBag
        /\ OneEmpty(req[p]) =>
             /\ NothingPersisted
             /\ (pc[p] = "done" /\ UserExists(req[p]) /\ NamesResolve(req[p])) =>
                    /\ res[p] = "QUANTITIES_DO_NOT_MATCH"
                    /\ local[p].sumWithdrawal # local[p].sumDeliver
                    /\ tx[p] = "rollback"

\* The call with both lists empty has answered 201 and its Order is committed.
C19_Witness ==
    \E p \in Procs :
        /\ pc[p] = "done" /\ res[p] = "201"
        /\ BothEmpty(req[p])
        /\ Cardinality(Order) = 1
        /\ OrderDetail = EmptyBag /\ OrderPlace = EmptyBag

\* ------------------------------------------------------------------ a call on its own
\* What a request is answered when nothing else runs: the checks in the order
\* a reader of the request alone would apply them.
Outcome(r) ==
    IF ~UserExists(r) THEN "INTERNAL_SERVER_ERROR"
    ELSE IF ~NamesResolve(r) THEN "PARAM_NOT_VALID"
    ELSE IF ~Balanced(r) THEN "QUANTITIES_DO_NOT_MATCH"
    ELSE "201"

\* The quantities of the first n foods / places of a request.
FoodSumUpTo(r, n) == FnSum([k \in 1..n |-> r.foods[k].quantity], 1..n)
PlaceSumUpTo(r, n) == FnSum([k \in 1..n |-> r.places[k].quantity_to_deliver], 1..n)

\* Each call in flight stands as if it ran alone.
Isolated ==
    \A p \in Procs :
        /\ pc[p] = "done" => res[p] = Outcome(req[p])
        /\ tx[p] = "commit" => Outcome(req[p]) = "201"
        /\ (pc[p] = "done" /\ Outcome(req[p]) = "201") => tx[p] = "commit"
        /\ pc[p] # "idle" =>
             /\ local[p].sumWithdrawal = FoodSumUpTo(req[p], local[p].i - 1)
             /\ local[p].sumDeliver = PlaceSumUpTo(req[p], local[p].j - 1)
        /\ \A o \in staged[p].orders : o.uuid = local[p].order
        /\ \A d \in DOMAIN staged[p].details \cup DOMAIN staged[p].places :
               d.orderUuid = local[p].order
        /\ \A q \in Procs :
               (q # p /\ local[p].order # NULL) => local[q].order # local[p].order
        /\ tx[p] = "commit" =>
             /\ OrderFind(local[p].order) = {OrderRow(local[p].order, req[p].user)}
             /\ DetailsOf(local[p].order) = AskedDetails(req[p], local[p].order)
             /\ PlacesOf(local[p].order) = AskedPlaces(req[p], local[p].order)
        /\ (local[p].order # NULL /\ tx[p] # "commit") => NothingVisibleOf(local[p].order)

\* C16: with createOrder calls interleaved in every way, each call is answered
\* what its request alone decides (201, PARAM_NOT_VALID,
\* QUANTITIES_DO_NOT_MATCH, INTERNAL_SERVER_ERROR) and commits exactly the rows
\* its request asks for; its two sums are those of its own items; the rows under
\* its transaction are of its own order; and the rollback of one call leaves
\* the committed tables and the rows under every other transaction as they are.
C16_CallsIsolated ==
    [][/\ Isolated'
       /\ \A p \in Procs :
            TxRollbackSettles(p) =>
                /\ Order' = Order /\ OrderDetail' = OrderDetail /\ OrderPlace' = OrderPlace
                /\ \A q \in Procs : q # p => staged'[q] = staged[q]
       /\ \A p \in Procs :
            TxCommitSettles(p) =>
                \A q \in Procs : q # p => staged'[q] = staged[q]]_vars

\* One call has failed on its sums and been rolled back while the other, which
\* created its Order first and has a food and a place, is still awaiting its commit.
C16_Witness ==
    \E p, q \in Procs :
        /\ p # q
        /\ pc[q] = "done" /\ res[q] = "QUANTITIES_DO_NOT_MATCH" /\ tx[q] = "rollback"
        /\ pc[p] = "L75" /\ tx[p] = "commit_pending"
        /\ staged[p].details # EmptyBag /\ staged[p].places # EmptyBag
        /\ local[p].order < local[q].order

\* ------------------------------------------------------------------ round trip
\* The line items a request submits: name and quantity of each, as a bag.
SubmittedFoods(r) ==
    SeqToBag([k \in DOMAIN r.foods |->
                [name |-> r.foods[k].name, quantity |-> r.foods[k].quantity]])
SubmittedPlaces(r) ==
    SeqToBag([k \in DOMAIN r.places |->
                [name |-> r.places[k].name, quantity |-> r.places[k].quantity_to_deliver]])

\* The line items an answered order shows: name and quantity of each, as a bag.
ShownFoods(o) ==
    LET item(e) == [name |-> e.name, quantity |-> e.OrderDetail.quantity]
        same(x) == {e \in DOMAIN o.Foods : item(e) = x}
    IN  [x \in {item(e) : e \in DOMAIN o.Foods} |->
            FnSum([e \in same(x) |-> o.Foods[e]], same(x))]
ShownPlaces(o) ==
    LET item(e) == [name |-> e.name, quantity |-> e.OrderPlace.quantity_to_deliver]
        same(x) == {e \in DOMAIN o.Places : item(e) = x}
    IN  [x \in {item(e) : e \in DOMAIN o.Places} |->
            FnSum([e \in same(x) |-> o.Places[e]], same(x))]

\* C14: getOrderStatus answers ORDER_NOT_FOUND for a uuid without a committed
\* order and otherwise the label of the stored status (Created, Running,
\* Completed, Failed); asked first thing after createOrder has answered 201, it
\* answers Created.  getOrderByUuid for the order of a call that answered 201
\* answers that order, owned by the requester, with the names and quantities
\* of exactly the foods and places the request submitted.
C14_RoundTrip ==
    [][/\ \A u \in Uuids :
            GetOrderStatus(u) =>
                /\ reply'.op = "getOrderStatus" /\ reply'.uuid = u
                /\ OrderFind(u) = {} =>
                       reply'.status = "ORDER_NOT_FOUND" /\ reply'.body = {}
                /\ \A o \in OrderFind(u) :
                       /\ reply'.status = "200"
                       /\ o.status = CREATED => reply'.body = {[status |-> "Created"]}
                       /\ o.status = RUNNING => reply'.body = {[status |-> "Running"]}
                       /\ o.status = COMPLETED => reply'.body = {[status |-> "Completed"]}
                       /\ o.status = FAILED => reply'.body = {[status |-> "Failed"]}
       /\ \A p \in Procs :
            (/\ pc[p] = "done" /\ res[p] = "201"
             /\ reply = NoReply
             /\ GetOrderStatus(local[p].order)) =>
                reply'.body = {[status |-> "Created"]}
       /\ \A p \in Procs :
            (/\ pc[p] = "done" /\ res[p] = "201"
             /\ GetOrderByUuid(local[p].order)) =>
                /\ reply'.status = "200"
                /\ Cardinality(reply'.body) = 1
                /\ \A o \in reply'.body :
                     /\ o.uuid = local[p].order
                     /\ o.userId = req[p].user
                     /\ ShownFoods(o) = SubmittedFoods(req[p])
                     /\ ShownPlaces(o) = SubmittedPlaces(req[p])
       /\ \A u \in Uuids :
            (GetOrderByUuid(u) /\ OrderFind(u) = {}) =>
                reply'.status = "ORDER_NOT_FOUND"]_vars

\* getOrderByUuid has answered the order of a request of bread 2 for table1 2.
C14_Witness ==
    /\ pc["a"] = "done" /\ res["a"] = "201"
    /\ Len(req["a"].foods) = 1 /\ req["a"].foods[1].quantity = 2
    /\ Len(req["a"].places) = 1 /\ req["a"].places[1].quantity_to_deliver = 2
    /\ reply.op = "getOrderByUuid" /\ reply.status = "200"
    /\ \E o \in reply.body : o.status = CREATED /\ BagCardinality(o.Foods) = 1

\* ------------------------------------------------------------------ order of the checks
\* The first item of a list whose name the table does not hold (none: one past the end).
FirstBadFood(r) ==
    IF FoodsResolve(r) THEN Len(r.foods) + 1
    ELSE CHOOSE k \in DOMAIN r.foods :
            /\ \A f \in Food : f.name # r.foods[k].name
            /\ \A m \in 1..(k - 1) : \E f \in Food : f.name = r.foods[m].name
FirstBadPlace(r) ==
    IF PlacesResolve(r) THEN Len(r.places) + 1
    ELSE CHOOSE k \in DOMAIN r.places :
            /\ \A f \in Place : f.name # r.places[k].name
            /\ \A m \in 1..(k - 1) : \E f \in Place : f.name = r.places[m].name

\* C17: createOrder gives one answer, decided in this order: without the
\* requester INTERNAL_SERVER_ERROR, before any item is looked at; else
\* PARAM_NOT_VALID at the first food that does not resolve, else at the first
\* place that does not resolve, whatever the sums; else QUANTITIES_DO_NOT_MATCH
\* when the sums differ; else 201.  An answer given is not followed by another.
\* executeOrder answers ORDER_NOT_FOUND, else ORDER_ALREADY_STARTED, else
\* WS_NOT_AVAILABLE, else 200, in this order.
C17_ErrorOrder ==
    [][/\ \A p \in Procs :
            LET r == req[p] IN
            pc'[p] = "done" =>
                /\ ~UserExists(r) =>
                     res'[p] = "INTERNAL_SERVER_ERROR" /\ local'[p] = NoLocal
                /\ (UserExists(r) /\ ~FoodsResolve(r)) =>
                     /\ res'[p] = "PARAM_NOT_VALID"
                     /\ local'[p].i = FirstBadFood(r) /\ local'[p].j = 1
                /\ (UserExists(r) /\ FoodsResolve(r) /\ ~PlacesResolve(r)) =>
                     /\ res'[p] = "PARAM_NOT_VALID"
                     /\ local'[p].i = Len(r.foods) + 1 /\ local'[p].j = FirstBadPlace(r)
                /\ (UserExists(r) /\ NamesResolve(r) /\ ~Balanced(r)) =>
                     /\ res'[p] = "QUANTITIES_DO_NOT_MATCH"
                     /\ local'[p].i = Len(r.foods) + 1 /\ local'[p].j = Len(r.places) + 1
                /\ (UserExists(r) /\ NamesResolve(r) /\ Balanced(r)) => res'[p] = "201"
       /\ \A p \in Procs : res[p] # "none" => res'[p] = res[p]
       /\ \A u \in Uuids :
            ExecuteOrder(u) =>
                /\ OrderFind(u) = {} => reply'.status = "ORDER_NOT_FOUND"
                /\ \A o \in OrderFind(u) :
                     /\ o.status # CREATED => reply'.status = "ORDER_ALREADY_STARTED"
                     /\ (o.status = CREATED /\ observers = 0) =>
                            reply'.status = "WS_NOT_AVAILABLE"
                     /\ (o.status = CREATED /\ observers > 0) => reply'.status = "200"]_vars

\* executeOrder has answered ORDER_ALREADY_STARTED for a RUNNING order with no
\* subscriber attached.
C17_Witness ==
    /\ reply.op = "executeOrder" /\ reply.status = "ORDER_ALREADY_STARTED"
    /\ observers = 0
    /\ \E o \in OrderFind(reply.uuid) : o.status = RUNNING

====
